---- MODULE Spec2Model ----
(***************************************************************************)
(* A model of haiku/_src/integration: the module descriptors               *)
(* (descriptors.py) and the dtype conformance check (bfloat16_test.py).    *)
(*                                                                         *)
(* Representation.                                                         *)
(*   module    a non-empty sequence of layers, outermost first; a layer is *)
(*             [cls, unroller].  m.wrapped is Tail(m).  Only Recurrent has *)
(*             an unroller attribute, the others carry NoAttr.             *)
(*   factory   a non-empty sequence of closure layers [fn, arg], outermost *)
(*             first: a registry lambda is <<[fn |-> "lambda", arg |->     *)
(*             name]>>, recurrent_factory(create_core, unroller) puts      *)
(*             [fn |-> "recurrent_factory", arg |-> unroller] in front of  *)
(*             the create_core it captured.                                *)
(*   tree      a pytree, seen through its leaves: the set of the dtypes its  *)
(*             leaves have ({} for a tree without leaves).  jax.tree_map   *)
(*             of a function of a leaf is the image of the set.            *)
(*   array     [shape, dtype].                                             *)
(***************************************************************************)
EXTENDS Naturals, Sequences, FiniteSets, TLC

\* ------------------------------------------------------------------ bounds
\* Wrapping adapters stacked around a module handed to unwrap.
MaxDepth == 2
\* Length of an arbitrary descriptor sequence handed to unroll_descriptors.
MaxDescs == 2
\* Calls of generated factories after one unroll_descriptors.
MaxCalls == 2

\* --------------------------------------------------------------- variables
\* assert_dtype
VARIABLES
  pc,            \* where assert_dtype stands
  platform,      \* jax.local_devices()[0].platform
  test_dtype, module_fn, shape, input_dtype,   \* the arguments
  x, params, state, y,                         \* the locals
  iter,          \* iterations of the loop of line 65 completed
  outcome,       \* None while running; skip, pass, fail or error
  steps,         \* the steps taken, in order
  applied,       \* the arguments of each apply_fn call
  initialized,   \* what init_fn returned: [params, state]
  returned,      \* what each apply_fn call returned: [y, state]
  created,       \* calls of module_fn
  initial_state_calls,  \* calls of initial_state, per forward pass
  ignored        \* the module-level set IGNORED_MODULES

\* unroll_descriptors and the factories it generates
VARIABLES
  descriptors,   \* the sequence handed to unroll_descriptors
  unroller_arg,  \* the unroller handed to it (None: the default)
  out,           \* what it returned
  upc,           \* "start" before the call, "built" after
  made,          \* the calls of generated factories: [gen, module]
  create_calls,  \* how often each registry lambda has been called
  invoked        \* Recurrent.__call__ on the made modules, in order

\* unwrap
VARIABLES
  arg,           \* the module handed to unwrap
  module,        \* the local `module`
  wpc,           \* "loop" while in the loop, "returned" after
  unwrap_steps   \* loop bodies executed

test_vars == << pc, platform, test_dtype, module_fn, shape, input_dtype,
                x, params, state, y, iter, outcome, steps, initialized, applied,
                returned, created, initial_state_calls, ignored >>

unroll_vars == << descriptors, unroller_arg, out, upc, made, create_calls, invoked >>

unwrap_vars == << arg, module, wpc, unwrap_steps >>

vars == << test_vars, unroll_vars, unwrap_vars >>

\* ------------------------------------------------------------------ values
None == "None"
NoAttr == "-"
float32 == "float32"
bfloat16 == "bfloat16"
int32 == "int32"
DTypes == {float32, bfloat16, int32}
Platforms == {"cpu", "gpu", "tpu"}
Unrollers == {"dynamic_unroll", "static_unroll"}

RECURSIVE SeqsUpTo(_, _)
SeqsUpTo(S, n) ==
  IF n = 0 THEN {<<>>}
  ELSE LET shorter == SeqsUpTo(S, n - 1)
       IN  shorter \cup {Append(s, e) : s \in shorter, e \in S}

\* Every combination of leaf dtypes a pytree can hold.
Trees == SUBSET DTypes

\* What init_fn returns for the float32 input: params without leaves or of
\* float32 leaves, state of float32 and int32 (counter) leaves.
InitParams == SUBSET {float32}
InitState == SUBSET {float32, int32}

\* ------------------------------------------------------- wrapping adapters
Layer(cls, unroller) == [cls |-> cls, unroller |-> unroller]
Concrete(cls) == <<Layer(cls, NoAttr)>>

\* class Wrapped and its subclasses: what isinstance(module, Wrapped) accepts.
WrappedClasses == {"Wrapped", "Training", "Recurrent", "ResetCoreAdapter"}

Training(wrapped) == <<Layer("Training", NoAttr)>> \o wrapped
ResetCoreAdapter(wrapped) == <<Layer("ResetCoreAdapter", NoAttr)>> \o wrapped
Recurrent(m, unroller) == <<Layer("Recurrent", unroller)>> \o m

isinstance_Wrapped(m) == Head(m).cls \in WrappedClasses

BATCH_SIZE == 8

\* ---------------------------------------------------------------- registry
ModuleDescriptor(name, create, shp, dtype) ==
  [name |-> name, create |-> create, shape |-> shp, dtype |-> dtype]

Lambda(name) == <<[fn |-> "lambda", arg |-> name]>>

\* The body of each registry lambda: the module it builds.
LambdaBody(name) ==
  CASE name = "BatchNorm" -> Training(Concrete("BatchNorm"))
    [] name = "nets.ResNet50" -> Training(Concrete("nets.ResNet50"))
    [] name = "ResetCore" -> ResetCoreAdapter(Concrete("ResetCore"))
    [] OTHER -> Concrete(name)

BATCH_MODULES ==
  << ModuleDescriptor("BatchNorm", Lambda("BatchNorm"), <<BATCH_SIZE, 2, 2, 3>>, float32),
     ModuleDescriptor("Bias", Lambda("Bias"), <<BATCH_SIZE, 3, 3, 3>>, float32),
     ModuleDescriptor("Conv1D", Lambda("Conv1D"), <<BATCH_SIZE, 2, 2>>, float32),
     ModuleDescriptor("Conv1DTranspose", Lambda("Conv1DTranspose"), <<BATCH_SIZE, 2, 2>>, float32),
     ModuleDescriptor("Conv2D", Lambda("Conv2D"), <<BATCH_SIZE, 2, 2, 2>>, float32),
     ModuleDescriptor("Conv2DTranspose", Lambda("Conv2DTranspose"), <<BATCH_SIZE, 2, 2, 2>>, float32),
     ModuleDescriptor("Conv3D", Lambda("Conv3D"), <<BATCH_SIZE, 2, 2, 2, 2>>, float32),
     ModuleDescriptor("Conv3DTranspose", Lambda("Conv3DTranspose"), <<BATCH_SIZE, 2, 2, 2, 2>>, float32),
     ModuleDescriptor("Embed", Lambda("Embed"), <<BATCH_SIZE>>, int32),
     ModuleDescriptor("Flatten", Lambda("Flatten"), <<BATCH_SIZE, 3, 3, 3>>, float32),
     ModuleDescriptor("InstanceNorm", Lambda("InstanceNorm"), <<BATCH_SIZE, 3, 2>>, float32),
     ModuleDescriptor("LayerNorm", Lambda("LayerNorm"), <<BATCH_SIZE, 3, 2>>, float32),
     ModuleDescriptor("SpectralNorm", Lambda("SpectralNorm"), <<BATCH_SIZE, 3, 2>>, float32),
     ModuleDescriptor("Linear", Lambda("Linear"), <<BATCH_SIZE, 1>>, float32),
     ModuleDescriptor("Sequential", Lambda("Sequential"), <<BATCH_SIZE, 2, 2>>, float32),
     ModuleDescriptor("nets.ResNet50", Lambda("nets.ResNet50"), <<BATCH_SIZE, 3, 3, 2>>, float32),
     ModuleDescriptor("nets.MLP", Lambda("nets.MLP"), <<BATCH_SIZE, 3>>, float32) >>

RNN_CORES ==
  << ModuleDescriptor("ResetCore", Lambda("ResetCore"), <<BATCH_SIZE, 128>>, float32),
     ModuleDescriptor("GRU", Lambda("GRU"), <<BATCH_SIZE, 128>>, float32),
     ModuleDescriptor("LSTM", Lambda("LSTM"), <<BATCH_SIZE, 128>>, float32),
     ModuleDescriptor("VanillaRNN", Lambda("VanillaRNN"), <<BATCH_SIZE, 128>>, float32) >>

\* recurrent_factory returns a closure over its two arguments.
recurrent_factory(create_core, unroller) ==
  <<[fn |-> "recurrent_factory", arg |-> unroller]>> \o create_core

\* Calling a factory: a registry lambda runs its body; the closure of
\* recurrent_factory runs Recurrent(create_core(), unroller).
RECURSIVE Call(_)
Call(factory) ==
  IF Head(factory).fn = "lambda"
    THEN LambdaBody(Head(factory).arg)
    ELSE Recurrent(Call(Tail(factory)), Head(factory).arg)

\* The registry lambda a call of the factory ends in.
RECURSIVE CalledLambda(_)
CalledLambda(factory) ==
  IF Head(factory).fn = "lambda" THEN Head(factory).arg
  ELSE CalledLambda(Tail(factory))

\* Mutation: the strategy's name is left out of the rewritten name.
UnrolledName_NoStrategy(name, unroller) == "Recurrent(" \o name \o ")"

\* The name rewritten by one iteration of the loop of unroll_descriptors.
UnrolledName(name, unroller) ==
  IF unroller = None
    THEN "Recurrent(" \o name \o ")"
    ELSE "Recurrent(" \o name \o ", " \o unroller \o ")"

\* Mutation: the factory reads the loop variable when called, after the loop
\* has ended, instead of capturing this iteration's create.
UnrollIteration_LateBinding(descs, i, unroller) ==
  ModuleDescriptor(UnrolledName(descs[i].name, unroller),
                   recurrent_factory(descs[Len(descs)].create, unroller),
                   descs[i].shape,
                   descs[i].dtype)

\* One iteration of the loop: the descriptor appended for descriptors[i].
UnrollIteration(descs, i, unroller) ==
  ModuleDescriptor(UnrolledName(descs[i].name, unroller),
                   recurrent_factory(descs[i].create, unroller),
                   descs[i].shape,
                   descs[i].dtype)

unroll_descriptors(descs, unroller) ==
  [i \in 1..Len(descs) |-> UnrollIteration(descs, i, unroller)]

\* Mutation: the second strategy replaced by a copy of the first.
RECURRENT_MODULES_DynamicTwice ==
  unroll_descriptors(RNN_CORES, "dynamic_unroll") \o
  unroll_descriptors(RNN_CORES, "dynamic_unroll")

RECURRENT_MODULES ==
  unroll_descriptors(RNN_CORES, "dynamic_unroll") \o
  unroll_descriptors(RNN_CORES, "static_unroll")

\* Mutation: a registered recurrent module is listed as ignored.
IGNORED_MODULES_WithResetCore ==
  { "BatchApply", "Module", "Reshape", "AvgPool", "MaxPool", "GraphNetwork",
    "EMAParamsTree", "SNParamsTree", "ExponentialMovingAverage",
    "DeepRNN", "RNNCore", "ResetCore" }

IGNORED_MODULES ==
  { "BatchApply", "Module", "Reshape", "AvgPool", "MaxPool", "GraphNetwork",
    "EMAParamsTree", "SNParamsTree", "ExponentialMovingAverage",
    "DeepRNN", "RNNCore" }

\* The descriptors the parameterized test is run over: the modules called
\* with the input alone.  A bare cell of RNN_CORES takes (inputs, state) and
\* is run through its Recurrent-wrapped descriptors.
ALL_MODULES == BATCH_MODULES \o RECURRENT_MODULES

\* ------------------------------------------------------------------ unwrap
\* Mutation: the loop only looks through Recurrent adapters.
unwrap_continues_OnlyRecurrent(m) == Head(m).cls = "Recurrent"

\* One test of the loop condition with the body it guards (line 55-56), and
\* the return once the condition fails (line 57).
unwrap_continues(m) == isinstance_Wrapped(m)

RECURSIVE unwrap(_)
unwrap(m) ==
  IF unwrap_continues(m) THEN unwrap(Tail(m)) ELSE m

\* ------------------------------------------------------ Recurrent.__call__
Array(shp, dtype) == [shape |-> shp, dtype |-> dtype]
NoArray == Array(<<>>, NoAttr)

expand_dims(a) == [a EXCEPT !.shape = <<1>> \o a.shape]

\* The classes with an initial_state method: hk.RNNCore and its subclasses.
RNNCoreClasses ==
  {"RNNCore", "ResetCoreAdapter", "ResetCore", "IdentityCore", "GRU", "LSTM",
   "VanillaRNN", "DeepRNN"}

\* Whether calling self.unroller raises: None is not callable.
unroller_raises(unroller) == unroller = None

\* Mutation: the batch size is read after the time axis was added.
Recurrent_call_ExpandFirst(self, a) ==
  [ initial_state |-> [cell |-> Head(Tail(self)).cls,
                       batch_size |-> expand_dims(a).shape[1]],
    x |-> expand_dims(a),
    unroller |-> Head(self).unroller,
    raised |-> IF Head(Tail(self)).cls \notin RNNCoreClasses THEN "AttributeError"
               ELSE IF unroller_raises(Head(self).unroller) THEN "TypeError"
               ELSE None ]

\* Recurrent.__call__(self, x): the call of initial_state it makes on the inner
\* cell, the input it hands on, and how it ends.
Recurrent_call(self, a) ==
  [ initial_state |-> [cell |-> Head(Tail(self)).cls, batch_size |-> a.shape[1]],
    x |-> expand_dims(a),
    unroller |-> Head(self).unroller,
    raised |-> IF Head(Tail(self)).cls \notin RNNCoreClasses THEN "AttributeError"
               ELSE IF unroller_raises(Head(self).unroller) THEN "TypeError"
               ELSE None ]

\* mod(x) for the module a factory built: the calls of initial_state made
\* and the exception raised, if any.  What the library modules compute is
\* outside this code; the callers draw it from Trees.
initial_state_calls_of(mod, a) ==
  IF Head(mod).cls = "Recurrent" THEN <<Recurrent_call(mod, a).initial_state>> ELSE <<>>

raised_by(mod, a) ==
  IF Head(mod).cls = "Recurrent" THEN Recurrent_call(mod, a).raised ELSE None

\* ------------------------------------------------------------ assert_dtype
\* Mutation: the leaves are left in their dtype.
f32_to_test_dtype_Identity(v, dtype) == v

\* lambda v: v.astype(test_dtype) if v.dtype == jnp.float32 else v
f32_to_test_dtype(v, dtype) == IF v = float32 THEN dtype ELSE v

tree_map_cast(tree, dtype) == { f32_to_test_dtype(v, dtype) : v \in tree }

astype(a, dtype) == [a EXCEPT !.dtype = dtype]

\* Mutation: int32 leaves are not exempt.
leaf_fails_NoIntExemption(v, dtype) == v # dtype

\* The inner assert_dtype(v) of line 68-70: whether assertEqual fails.
leaf_fails(v, dtype) == v # int32 /\ v # dtype

tree_fails(tree, dtype) == \E v \in tree : leaf_fails(v, dtype)

\* Whether the first skipTest is reached (line 37).
platform_unsupported(p) == p # "tpu"

\* Mutation: the input dtype is never a reason to skip.
input_unsupported_Never(dtype) == FALSE

\* Whether the second skipTest is reached (line 40).
input_unsupported(dtype) == dtype # float32

\* How many iterations the loop of line 65 makes.
apply_iterations == 2

TestInit ==
  /\ pc = "platform"
  /\ platform \in Platforms
  /\ test_dtype = bfloat16
  /\ \E d \in 1..Len(ALL_MODULES) :
       /\ module_fn = ALL_MODULES[d].create
       /\ shape = ALL_MODULES[d].shape
       /\ input_dtype = ALL_MODULES[d].dtype
  /\ x = NoArray
  /\ params = {}
  /\ state = {}
  /\ y = {}
  /\ iter = 0
  /\ outcome = None
  /\ steps = <<>>
  /\ initialized = <<>>
  /\ applied = <<>>
  /\ returned = <<>>
  /\ created = 0
  /\ initial_state_calls = <<>>
  /\ ignored = IGNORED_MODULES

Finish(result) ==
  /\ outcome' = result
  /\ pc' = "done"

\* line 37-38
CheckPlatform ==
  /\ pc = "platform"
  /\ IF platform_unsupported(platform)
       THEN Finish("skip")
       ELSE pc' = "input_dtype" /\ UNCHANGED outcome
  /\ UNCHANGED << platform, test_dtype, module_fn, shape, input_dtype, x, params,
                  state, y, iter, steps, applied, returned, created,
                  initial_state_calls, initialized, ignored,
                  unroll_vars, unwrap_vars >>

\* line 40-41
CheckInputDtype ==
  /\ pc = "input_dtype"
  /\ IF input_unsupported(input_dtype)
       THEN Finish("skip")
       ELSE pc' = "sample" /\ UNCHANGED outcome
  /\ UNCHANGED << platform, test_dtype, module_fn, shape, input_dtype, x, params,
                  state, y, iter, steps, applied, returned, created,
                  initial_state_calls, initialized, ignored,
                  unroll_vars, unwrap_vars >>

\* line 43-54: x = jax.random.uniform(rng, shape), float32 by default
Sample ==
  /\ pc = "sample"
  /\ x' = Array(shape, float32)
  /\ steps' = Append(steps, "sample")
  /\ pc' = "init"
  /\ UNCHANGED << platform, test_dtype, module_fn, shape, input_dtype, params,
                  state, y, iter, outcome, applied, returned, created,
                  initial_state_calls, initialized, ignored,
                  unroll_vars, unwrap_vars >>

\* line 55: params, state = init_fn(rng, x), which runs g(x)
InitFn ==
  /\ pc = "init"
  /\ LET mod == Call(module_fn) IN
       /\ created' = created + 1
       /\ initial_state_calls' = Append(initial_state_calls, initial_state_calls_of(mod, x))
       /\ steps' = Append(steps, "init")
       /\ IF raised_by(mod, x) # None
            THEN Finish("error") /\ UNCHANGED << params, state, initialized >>
            ELSE /\ \E p \in InitParams, s \in InitState :
                      /\ params' = p
                      /\ state' = s
                      /\ initialized' = <<[params |-> p, state |-> s]>>
                 /\ pc' = "cast_tree"
                 /\ UNCHANGED outcome
  /\ UNCHANGED << platform, test_dtype, module_fn, shape, input_dtype, x, y, iter,
                  applied, returned, ignored, unroll_vars, unwrap_vars >>

\* line 58-60
CastTree ==
  /\ pc = "cast_tree"
  /\ params' = tree_map_cast(params, test_dtype)
  /\ state' = tree_map_cast(state, test_dtype)
  /\ steps' = Append(steps, "cast_tree")
  /\ pc' = "cast_x"
  /\ UNCHANGED << platform, test_dtype, module_fn, shape, input_dtype, x, y, iter,
                  outcome, applied, returned, created,
                  initial_state_calls, initialized, ignored,
                  unroll_vars, unwrap_vars >>

\* line 63
CastInput ==
  /\ pc = "cast_x"
  /\ x' = astype(x, test_dtype)
  /\ steps' = Append(steps, "cast_x")
  /\ pc' = "apply"
  /\ UNCHANGED << platform, test_dtype, module_fn, shape, input_dtype, params,
                  state, y, iter, outcome, applied, returned, created,
                  initial_state_calls, initialized, ignored,
                  unroll_vars, unwrap_vars >>

\* line 66: y, state = apply_fn(params, state, rng, x), which runs g(x)
ApplyFn ==
  /\ pc = "apply"
  /\ LET mod == Call(module_fn) IN
       /\ created' = created + 1
       /\ initial_state_calls' = Append(initial_state_calls, initial_state_calls_of(mod, x))
       /\ applied' = Append(applied, [params |-> params, state |-> state, x |-> x])
       /\ steps' = Append(steps, "apply")
       /\ IF raised_by(mod, x) # None
            THEN Finish("error") /\ UNCHANGED << y, state, returned >>
            ELSE /\ \E o \in Trees, s \in Trees :
                      /\ y' = o
                      /\ state' = s
                      /\ returned' = Append(returned, [y |-> o, state |-> s])
                 /\ pc' = "assert_y"
                 /\ UNCHANGED outcome
  /\ UNCHANGED << platform, test_dtype, module_fn, shape, input_dtype, x, params,
                  iter, initialized, ignored, unroll_vars, unwrap_vars >>

\* line 72: jax.tree_map(assert_dtype, y)
AssertOutput ==
  /\ pc = "assert_y"
  /\ IF tree_fails(y, test_dtype)
       THEN Finish("fail")
       ELSE pc' = "assert_state" /\ UNCHANGED outcome
  /\ UNCHANGED << platform, test_dtype, module_fn, shape, input_dtype, x, params,
                  state, y, iter, steps, applied, returned, created,
                  initial_state_calls, initialized, ignored,
                  unroll_vars, unwrap_vars >>

\* line 73: jax.tree_map(assert_dtype, state), then the loop of line 65
AssertState ==
  /\ pc = "assert_state"
  /\ IF tree_fails(state, test_dtype)
       THEN Finish("fail") /\ UNCHANGED iter
       ELSE /\ iter' = iter + 1
            /\ IF iter + 1 < apply_iterations
                 THEN pc' = "apply" /\ UNCHANGED outcome
                 ELSE Finish("pass")
  /\ UNCHANGED << platform, test_dtype, module_fn, shape, input_dtype, x, params,
                  state, y, steps, applied, returned, created,
                  initial_state_calls, initialized, ignored,
                  unroll_vars, unwrap_vars >>

TestNext ==
  \/ CheckPlatform
  \/ CheckInputDtype
  \/ Sample
  \/ InitFn
  \/ CastTree
  \/ CastInput
  \/ ApplyFn
  \/ AssertOutput
  \/ AssertState

\* ------------------------------------------------- unroll_descriptors, used
\* Descriptors the arbitrary input sequences are drawn from.
BasePool == { RNN_CORES[1], RNN_CORES[2], BATCH_MODULES[9] }

LambdaNames ==
  { BATCH_MODULES[i].name : i \in 1..Len(BATCH_MODULES) } \cup
  { RNN_CORES[i].name : i \in 1..Len(RNN_CORES) }

UnrollInit ==
  /\ descriptors \in SeqsUpTo(BasePool, MaxDescs) \cup {RNN_CORES}
  /\ unroller_arg \in Unrollers \cup {None}
  /\ out = <<>>
  /\ upc = "start"
  /\ made = <<>>
  /\ create_calls = [n \in LambdaNames |-> 0]
  /\ invoked = <<>>

\* out = unroll_descriptors(descriptors, unroller)
Unroll ==
  /\ upc = "start"
  /\ out' = unroll_descriptors(descriptors, unroller_arg)
  /\ upc' = "built"
  /\ UNCHANGED << descriptors, unroller_arg, made, create_calls, invoked, test_vars, unwrap_vars >>

\* out[i].create()
CallGenerated(i) ==
  /\ upc = "built"
  /\ Len(made) < MaxCalls
  /\ made' = Append(made, [gen |-> i, module |-> Call(out[i].create)])
  /\ create_calls' = [create_calls EXCEPT ![CalledLambda(out[i].create)] = @ + 1]
  /\ UNCHANGED << descriptors, unroller_arg, out, upc, invoked, test_vars, unwrap_vars >>

\* mod(x) on the next made module, x of the descriptor's shape and dtype
Invoke ==
  /\ Len(invoked) < Len(made)
  /\ LET k == Len(invoked) + 1
         d == out[made[k].gen]
         xin == Array(d.shape, d.dtype)
     IN  invoked' = Append(invoked, [module |-> made[k].module, x |-> xin,
                                     call |-> Recurrent_call(made[k].module, xin)])
  /\ UNCHANGED << descriptors, unroller_arg, out, upc, made, create_calls, test_vars, unwrap_vars >>

UnrollNext ==
  \/ Unroll
  \/ \E i \in 1..Len(out) : CallGenerated(i)
  \/ Invoke

\* ------------------------------------------------------------ unwrap, run
Registry == BATCH_MODULES \o RNN_CORES \o RECURRENT_MODULES

\* The identity of each registered module: the class of the unwrapped, freshly
\* created instance.
RegistryClasses ==
  { Head(unwrap(Call(Registry[i].create))).cls : i \in 1..Len(Registry) }

WrapperLayers ==
  { Layer("Training", NoAttr), Layer("ResetCoreAdapter", NoAttr) } \cup
  { Layer("Recurrent", u) : u \in Unrollers \cup {None} }

\* Freshly created registry instances, and adapters stacked to any depth up
\* to MaxDepth around a concrete module.
UnwrapInputs ==
  { Call(Registry[i].create) : i \in 1..Len(Registry) } \cup
  { w \o Concrete(c) : w \in SeqsUpTo(WrapperLayers, MaxDepth),
                       c \in {"Linear", "ResetCore", "GRU"} }

UnwrapInit ==
  /\ arg \in UnwrapInputs
  /\ module = arg
  /\ wpc = "loop"
  /\ unwrap_steps = 0

\* line 55-56: the condition holds, module = module.wrapped
UnwrapStep ==
  /\ wpc = "loop"
  /\ unwrap_continues(module)
  /\ module' = Tail(module)
  /\ unwrap_steps' = unwrap_steps + 1
  /\ UNCHANGED << arg, wpc, test_vars, unroll_vars >>

\* line 57: the condition fails, return module
UnwrapReturn ==
  /\ wpc = "loop"
  /\ ~unwrap_continues(module)
  /\ wpc' = "returned"
  /\ UNCHANGED << arg, module, unwrap_steps, test_vars, unroll_vars >>

UnwrapNext ==
  \/ UnwrapStep
  \/ UnwrapReturn

\* ---------------------------------------------------------- specifications
\* Each machine at rest while another runs.
TestIdle ==
  /\ pc = "idle" /\ platform = "cpu" /\ test_dtype = bfloat16
  /\ module_fn = Lambda("Bias") /\ shape = <<>> /\ input_dtype = float32
  /\ x = NoArray /\ params = {} /\ state = {} /\ y = {} /\ iter = 0
  /\ outcome = None /\ steps = <<>> /\ initialized = <<>> /\ applied = <<>>
  /\ returned = <<>>
  /\ created = 0 /\ initial_state_calls = <<>> /\ ignored = IGNORED_MODULES

UnrollIdle ==
  /\ descriptors = <<>> /\ unroller_arg = None /\ out = <<>> /\ upc = "idle"
  /\ made = <<>> /\ create_calls = [n \in LambdaNames |-> 0] /\ invoked = <<>>

UnwrapIdle ==
  /\ arg = Concrete("Bias") /\ module = Concrete("Bias") /\ wpc = "idle"
  /\ unwrap_steps = 0

\* The conformance check run over the registry.
Init == TestInit /\ UnrollIdle /\ UnwrapIdle
Next == TestNext
Spec == Init /\ [][Next]_vars

\* unroll_descriptors and the factories it generates.
InitUnroll == UnrollInit /\ TestIdle /\ UnwrapIdle
NextUnroll == UnrollNext
SpecUnroll == InitUnroll /\ [][NextUnroll]_vars

\* unwrap; the loop is run to its end (weak fairness of its steps).
InitUnwrap == UnwrapInit /\ TestIdle /\ UnrollIdle
NextUnwrap == UnwrapNext
SpecUnwrap == InitUnwrap /\ [][NextUnwrap]_vars /\ WF_vars(NextUnwrap)

\* ------------------------------------------------------------------ claims
IsRecurrentCase == Head(module_fn).fn = "recurrent_factory"

\* C1 (as claimed), under SpecUnroll: a Recurrent adapter around a recurrent
\* cell that holds no unroller, once invoked, has returned a result and has
\* not raised.
C1_NullUnrollerApplies ==
  \A k \in 1..Len(invoked) :
    ( /\ Head(invoked[k].module).cls = "Recurrent"
      /\ Head(invoked[k].module).unroller = None
      /\ Head(Tail(invoked[k].module)).cls \in RNNCoreClasses )
    => invoked[k].call.raised = None

NullStrategyNames ==
  { "Recurrent(" \o RNN_CORES[c].name \o ")" : c \in 1..Len(RNN_CORES) }

RegisteredNames ==
  { RECURRENT_MODULES[j].name : j \in 1..Len(RECURRENT_MODULES) }

\* C2 (as claimed): for every cell of RNN_CORES the registry's unrolled
\* descriptors hold one named Recurrent(<base>), the null strategy's, so that
\* a recurrent test case holds any of the three strategies.
C2_NullStrategyRegistered ==
  /\ NullStrategyNames \subseteq RegisteredNames
  /\ IsRecurrentCase =>
       Head(module_fn).arg \in {None, "dynamic_unroll", "static_unroll"}

CellsTimesUnrollers ==
  /\ Len(RECURRENT_MODULES) = Len(RNN_CORES) * Cardinality(Unrollers)
  /\ \A c \in 1..Len(RNN_CORES) : \A u \in {"dynamic_unroll", "static_unroll"} :
       Cardinality({ j \in 1..Len(RECURRENT_MODULES) :
         /\ RECURRENT_MODULES[j].name =
              "Recurrent(" \o RNN_CORES[c].name \o ", " \o u \o ")"
         /\ Call(RECURRENT_MODULES[j].create) =
              <<[cls |-> "Recurrent", unroller |-> u]>> \o Call(RNN_CORES[c].create)
         /\ RECURRENT_MODULES[j].shape = RNN_CORES[c].shape
         /\ RECURRENT_MODULES[j].dtype = RNN_CORES[c].dtype }) = 1
  /\ \A j \in 1..Len(RECURRENT_MODULES) :
       Head(Call(RECURRENT_MODULES[j].create)).unroller # None
  /\ NullStrategyNames \cap RegisteredNames = {}

\* C2 (amended): RECURRENT_MODULES holds exactly one descriptor for every
\* pair of a cell of RNN_CORES and a strategy among dynamic_unroll and
\* static_unroll, named Recurrent(<base>, <strategy>) and building a Recurrent
\* adapter holding that strategy around the cell; it holds nothing else, and
\* so no descriptor of the null strategy: every recurrent test case holds
\* dynamic_unroll or static_unroll.
C2_RegistryIsCellsTimesUnrollers ==
  /\ CellsTimesUnrollers
  /\ IsRecurrentCase => Head(module_fn).arg \in {"dynamic_unroll", "static_unroll"}

C2_Witness ==
  /\ pc = "done" /\ outcome = "pass"
  /\ module_fn = RECURRENT_MODULES[Len(RECURRENT_MODULES)].create

\* C3, under SpecUnroll: every call of the i-th generated factory called the
\* i-th input descriptor's factory, once, and no other, and returned a
\* Recurrent adapter holding the chosen unroller around that factory's module,
\* whatever the calls made before it.
C3_FactoriesCloseOverOwnBase ==
  /\ \A k \in 1..Len(made) :
       made[k].module =
         <<[cls |-> "Recurrent", unroller |-> unroller_arg]>>
           \o Call(descriptors[made[k].gen].create)
  /\ \A n \in LambdaNames :
       create_calls[n] =
         Cardinality({ k \in 1..Len(made) : descriptors[made[k].gen].create = Lambda(n) })

C3_Witness ==
  /\ Len(made) = 2
  /\ made[1].gen = 2 /\ made[2].gen = 1
  /\ descriptors[1].create # descriptors[2].create
  /\ create_calls[descriptors[1].name] = 1
  /\ create_calls[descriptors[2].name] = 1

\* C4, under SpecUnroll: the result of unroll_descriptors has the length
\* and order of its input, the i-th name is Recurrent(<base>) without an
\* unroller and Recurrent(<base>, <unroller name>) with one, shape and
\* dtype are those of the i-th input descriptor, and the input is never
\* changed.
C4_NamesShapesDtypes ==
  /\ [](upc = "built" =>
         /\ Len(out) = Len(descriptors)
         /\ \A i \in 1..Len(descriptors) :
              /\ out[i].name =
                   IF unroller_arg = None
                     THEN "Recurrent(" \o descriptors[i].name \o ")"
                     ELSE "Recurrent(" \o descriptors[i].name \o ", " \o unroller_arg \o ")"
              /\ out[i].shape = descriptors[i].shape
              /\ out[i].dtype = descriptors[i].dtype)
  /\ [][descriptors' = descriptors]_vars

C4_Witness ==
  /\ upc = "built"
  /\ Len(descriptors) = 2
  /\ unroller_arg = "static_unroll"
  /\ descriptors[1].dtype = int32
  /\ descriptors[2].dtype = float32
  /\ out[2].name = "Recurrent(GRU, static_unroll)"

\* C5, under SpecUnwrap: unwrap returns, for adapters stacked to any depth,
\* after as many loop bodies as there are adapters, and what it returns is the
\* innermost module, which is no Wrapped instance.
C5_UnwrapTerminatesAtInnermost ==
  /\ <>[](/\ wpc = "returned"
          /\ module = <<arg[Len(arg)]>>
          /\ Head(module).cls \notin {"Wrapped", "Training", "Recurrent", "ResetCoreAdapter"}
          /\ unwrap_steps = Len(arg) - 1)
  /\ [](unwrap_steps + Len(module) = Len(arg))

C5_Witness ==
  /\ wpc = "returned"
  /\ Len(arg) >= 3
  /\ Head(arg).cls = "Recurrent"
  /\ arg[2].cls = "ResetCoreAdapter"
  /\ module = Concrete("ResetCore")

\* C6: when the platform is not a TPU or the input dtype is not float32,
\* assert_dtype calls no factory, samples, initializes, casts and applies
\* nothing, and ends skipped; it skips in no other case.
C6_SkipsWithoutRunning ==
  /\ (platform # "tpu" \/ input_dtype # float32) =>
       /\ created = 0
       /\ steps = <<>>
       /\ initialized = <<>>
       /\ applied = <<>>
       /\ x = NoArray
       /\ pc \in {"platform", "input_dtype", "done"}
       /\ (pc = "done" => outcome = "skip")
  /\ (platform = "tpu" /\ input_dtype = float32) =>
       /\ outcome # "skip"
       /\ (pc = "done" => created >= 2)

C6_Witness ==
  /\ pc = "done" /\ outcome = "skip"
  /\ platform = "tpu" /\ input_dtype = int32

\* C7 (as claimed): every run that was not skipped has made exactly two
\* applications when it ends.
C7_AlwaysTwoApplications ==
  (pc = "done" /\ outcome # "skip") => Len(applied) = 2

\* C7 (amended): a run that is not skipped initializes with the float32
\* input, then casts params, state and input, then applies: twice when the
\* checks of the first application pass, once when they fail.  Every
\* application gets the cast params and the cast input, the first the cast
\* initial state, the second the state the first returned.
C7_InitCastApplyThreaded ==
  /\ \E n \in 0..6 :
       steps = SubSeq(<<"sample", "init", "cast_tree", "cast_x", "apply", "apply">>, 1, n)
  /\ Len(applied) <= 2
  /\ \A k \in 1..Len(applied) :
       /\ applied[k].params =
            { IF v = float32 THEN test_dtype ELSE v : v \in initialized[1].params }
       /\ applied[k].x = [shape |-> shape, dtype |-> test_dtype]
  /\ Len(applied) >= 1 =>
       applied[1].state =
         { IF v = float32 THEN test_dtype ELSE v : v \in initialized[1].state }
  /\ Len(applied) = 2 => applied[2].state = returned[1].state
  /\ (pc = "done" /\ outcome = "pass") => Len(applied) = 2
  /\ (pc = "done" /\ outcome = "fail") =>
       \/ Len(applied) = 2
       \/ /\ Len(applied) = 1
          /\ \E v \in returned[1].y \cup returned[1].state : v \notin {test_dtype, int32}

C7_Witness ==
  /\ pc = "done" /\ outcome = "pass"
  /\ Len(applied) = 2
  /\ float32 \in initialized[1].params
  /\ float32 \in initialized[1].state
  /\ applied[2].state # applied[1].state

\* C8: a run that is not skipped fails exactly when some leaf of the output
\* or of the state of an application it made is neither of the test dtype
\* nor int32; after a first application with such a leaf no second one is
\* made.
C8_FailsIffViolatingLeaf ==
  /\ (pc = "done" /\ outcome # "skip") =>
       ( outcome = "fail" <=>
           \E k \in 1..Len(returned) :
             \E v \in returned[k].y \cup returned[k].state : v \notin {test_dtype, int32} )
  /\ Len(returned) = 2 =>
       \A v \in returned[1].y \cup returned[1].state : v \in {test_dtype, int32}
  /\ pc # "done" => outcome = None

C8_Witness ==
  /\ pc = "done" /\ outcome = "fail"
  /\ Len(returned) = 2
  /\ int32 \in returned[1].state
  /\ returned[2].y = {test_dtype}
  /\ returned[2].state = {int32, float32}

\* C9 (as claimed): in a passing run of a Recurrent-wrapped descriptor the
\* two applications together call initial_state exactly once.
C9_OncePerApplicationSequence ==
  (IsRecurrentCase /\ pc = "done" /\ outcome = "pass") =>
    Len(initial_state_calls[2]) + Len(initial_state_calls[3]) = 1

\* C9 (amended): for a Recurrent-wrapped descriptor every forward pass, the
\* one of the initialization and the one of each application, calls the inner
\* cell's initial_state exactly once, with batch_size the leading dimension
\* of the input before the time axis is added, 8: three calls in a run that
\* makes both applications.
C9_OncePerForwardPass ==
  IsRecurrentCase =>
    /\ Len(initial_state_calls) = created
    /\ created = Cardinality({ k \in 1..Len(steps) : steps[k] \in {"init", "apply"} })
    /\ \A k \in 1..Len(initial_state_calls) :
         /\ Len(initial_state_calls[k]) = 1
         /\ initial_state_calls[k][1].batch_size = shape[1]
         /\ initial_state_calls[k][1].batch_size = 8
         /\ initial_state_calls[k][1].cell = Head(Tail(Call(module_fn))).cls
    /\ (pc = "done" /\ outcome = "pass") => Len(initial_state_calls) = 3

C9_Witness ==
  /\ IsRecurrentCase
  /\ pc = "done" /\ outcome = "pass"
  /\ Len(initial_state_calls) = 3
  /\ initial_state_calls[3][1].cell = "ResetCoreAdapter"

\* C10: no class in IGNORED_MODULES is the class of the unwrapped module a
\* descriptor of BATCH_MODULES, RNN_CORES or RECURRENT_MODULES creates, and
\* the set is the one the module defines whatever has run.
C10_IgnoredDisjointFromRegistry ==
  /\ RegistryClasses \cap ignored = {}
  /\ Cardinality(RegistryClasses) = 21
  /\ ignored =
       { "BatchApply", "Module", "Reshape", "AvgPool", "MaxPool", "GraphNetwork",
         "EMAParamsTree", "SNParamsTree", "ExponentialMovingAverage",
         "DeepRNN", "RNNCore" }

C10_Witness ==
  /\ pc = "done" /\ outcome = "pass"
  /\ Head(unwrap(Call(module_fn))).cls = "ResetCore"
  /\ Len(Call(module_fn)) = 3

====
